---------------------------- MODULE Spec2Model ----------------------------
(***************************************************************************)
(* Model of the three dataset parsers of opensanctions/graph:              *)
(*   datasets/md_companies/parse.py, datasets/de_offeneregister/parse.py,  *)
(*   datasets/cy_companies/parse.py.                                       *)
(*                                                                         *)
(* A Python str is a sequence of one-character strings, so that split,     *)
(* rsplit, strip, replace and the regular expressions are computed on the  *)
(* characters.  None and a non-str cell value are the sentinels None and   *)
(* IntVal.  An entity is [schema, id, props], props a set of               *)
(* <<property, value>> pairs (multi-valued, as followthemoney keeps them). *)
(* The output stream `out` is the sequence of context.emit calls.          *)
(***************************************************************************)
EXTENDS Integers, Sequences, FiniteSets, TLC

VARIABLES dataset, out, err, cache, nrec, files, loadIdx, addresses, fileIdx,
          lastMd, lastDe, lastCy

vars == <<dataset, out, err, cache, nrec, files, loadIdx, addresses, fileIdx,
          lastMd, lastDe, lastCy>>

(* ------------------------------ bounds -------------------------------- *)
\* number of input records (rows, JSON lines) one run reads
MaxRecords == 2
\* number of 'name [role]' items in a generated well-formed directors field
MaxItems == 2

(* --------------------------- Python values ---------------------------- *)
None == <<"None">>
IntVal == <<"int">>
IsStr(v) == v # None /\ v # IntVal

(* ------------------------------ str ops ------------------------------- *)
\* The characters of the model's strings are U+0001..U+00FF (without U+0060)
\* and the Greek letters U+0384..U+03CE; the tables below are Python's
\* character classes on them.
\* str.isspace(): what str.strip() removes and \s matches
SpaceSet ==
    {"\t", "\n", "", "\f", "\r", "", "", "", "", " ", "", " "}
\* str.isdecimal(): what \d matches
DigitSeq ==
    <<"0", "1", "2", "3", "4", "5", "6", "7", "8", "9">>
\* the characters c with c.lower() # c, and c.lower() at the same index
Uppers ==
    <<"A", "B", "C", "D", "E", "F", "G", "H", "I", "J", "K", "L", "M", "N", "O", "P", "Q", "R",
      "S", "T", "U", "V", "W", "X", "Y", "Z", "À", "Á", "Â", "Ã", "Ä", "Å", "Æ", "Ç", "È", "É",
      "Ê", "Ë", "Ì", "Í", "Î", "Ï", "Ð", "Ñ", "Ò", "Ó", "Ô", "Õ", "Ö", "Ø", "Ù", "Ú", "Û", "Ü",
      "Ý", "Þ", "Ά", "Έ", "Ή", "Ί", "Ό", "Ύ", "Ώ", "Α", "Β", "Γ", "Δ", "Ε", "Ζ", "Η", "Θ", "Ι",
      "Κ", "Λ", "Μ", "Ν", "Ξ", "Ο", "Π", "Ρ", "Σ", "Τ", "Υ", "Φ", "Χ", "Ψ", "Ω", "Ϊ", "Ϋ">>
Lowers ==
    <<"a", "b", "c", "d", "e", "f", "g", "h", "i", "j", "k", "l", "m", "n", "o", "p", "q", "r",
      "s", "t", "u", "v", "w", "x", "y", "z", "à", "á", "â", "ã", "ä", "å", "æ", "ç", "è", "é",
      "ê", "ë", "ì", "í", "î", "ï", "ð", "ñ", "ò", "ó", "ô", "õ", "ö", "ø", "ù", "ú", "û", "ü",
      "ý", "þ", "ά", "έ", "ή", "ί", "ό", "ύ", "ώ", "α", "β", "γ", "δ", "ε", "ζ", "η", "θ", "ι",
      "κ", "λ", "μ", "ν", "ξ", "ο", "π", "ρ", "σ", "τ", "υ", "φ", "χ", "ψ", "ω", "ϊ", "ϋ">>
\* str.isalpha()
LetterSet ==
    {"A", "B", "C", "D", "E", "F", "G", "H", "I", "J", "K", "L", "M", "N", "O", "P", "Q", "R",
     "S", "T", "U", "V", "W", "X", "Y", "Z", "a", "b", "c", "d", "e", "f", "g", "h", "i", "j",
     "k", "l", "m", "n", "o", "p", "q", "r", "s", "t", "u", "v", "w", "x", "y", "z", "ª", "µ",
     "º", "À", "Á", "Â", "Ã", "Ä", "Å", "Æ", "Ç", "È", "É", "Ê", "Ë", "Ì", "Í", "Î", "Ï", "Ð",
     "Ñ", "Ò", "Ó", "Ô", "Õ", "Ö", "Ø", "Ù", "Ú", "Û", "Ü", "Ý", "Þ", "ß", "à", "á", "â", "ã",
     "ä", "å", "æ", "ç", "è", "é", "ê", "ë", "ì", "í", "î", "ï", "ð", "ñ", "ò", "ó", "ô", "õ",
     "ö", "ø", "ù", "ú", "û", "ü", "ý", "þ", "ÿ", "Ά", "Έ", "Ή", "Ί", "Ό", "Ύ", "Ώ", "ΐ", "Α",
     "Β", "Γ", "Δ", "Ε", "Ζ", "Η", "Θ", "Ι", "Κ", "Λ", "Μ", "Ν", "Ξ", "Ο", "Π", "Ρ", "Σ", "Τ",
     "Υ", "Φ", "Χ", "Ψ", "Ω", "Ϊ", "Ϋ", "ά", "έ", "ή", "ί", "ΰ", "α", "β", "γ", "δ", "ε", "ζ",
     "η", "θ", "ι", "κ", "λ", "μ", "ν", "ξ", "ο", "π", "ρ", "ς", "σ", "τ", "υ", "φ", "χ", "ψ",
     "ω", "ϊ", "ϋ", "ό", "ύ", "ώ"}
\* str.isalnum() without isalpha() and isdecimal()
NumericSet ==
    {"²", "³", "¹", "¼", "½", "¾"}
\* Unicode Case_Ignorable: what str.lower() skips around a capital sigma
CaseIgnorable ==
    {"'", ".", ":", "^", "¨", "­", "¯", "´", "·", "¸", "΄", "΅", "·"}

Range(s) == {s[i] : i \in DOMAIN s}

\* Only({e(x) : x \in {v}}) is e(v) with v evaluated once and named x
Only(S) == CHOOSE r \in S : TRUE

\* the largest of a non-empty set of numbers
Max(S) == CHOOSE x \in S : \A y \in S : y <= x

\* the least of a non-empty set of numbers
Min(S) == CHOOSE x \in S : \A y \in S : x <= y

UpperSet == Range(Uppers)
Digits == Range(DigitSeq)

\* c # c.lower()
IsUpper(c) == c \in UpperSet
IsLetter(c) == c \in LetterSet
IsDigit(c) == c \in Digits
IsSpace(c) == c \in SpaceSet
\* \w of a str pattern: str.isalnum() or "_"
WordChars == LetterSet \cup Digits \cup NumericSet \cup {"_"}

\* int(c) of a decimal digit
DigitVal(c) == (CHOOSE i \in DOMAIN DigitSeq : DigitSeq[i] = c) - 1

\* c.lower() of one character
LowerChar(c) ==
    IF IsUpper(c) THEN Lowers[CHOOSE i \in DOMAIN Uppers : Uppers[i] = c] ELSE c

\* the capital sigma s[i] is final: before it, past the case-ignorable
\* characters, stands a cased character, and after it none does
FinalSigma(s, i) ==
    LET before == {j \in 1..(i - 1) : s[j] \notin CaseIgnorable}
        after == {j \in (i + 1)..Len(s) : s[j] \notin CaseIgnorable}
    IN  /\ before # {}
        /\ IsLetter(s[Max(before)])
        /\ after = {} \/ ~IsLetter(s[Min(after)])

\* str.lower()
lower(s) ==
    [i \in DOMAIN s |-> IF s[i] = "Σ" /\ FinalSigma(s, i) THEN "ς" ELSE LowerChar(s[i])]

\* s[i:] with 1-based i
From(s, i) == SubSeq(s, i, Len(s))

\* sub occurs in s at position i
OccursAt(s, sub, i) ==
    /\ i >= 1
    /\ i + Len(sub) - 1 <= Len(s)
    /\ SubSeq(s, i, i + Len(sub) - 1) = sub

\* str.find, 1-based, 0 when absent
find(s, sub) ==
    IF \E i \in 1..Len(s) : OccursAt(s, sub, i)
    THEN CHOOSE i \in 1..Len(s) :
            OccursAt(s, sub, i) /\ \A j \in 1..(i - 1) : ~OccursAt(s, sub, j)
    ELSE 0

\* str.rfind of one character, 1-based, 0 when absent
rfind(s, c) ==
    IF \E i \in 1..Len(s) : s[i] = c
    THEN CHOOSE i \in 1..Len(s) : s[i] = c /\ \A j \in (i + 1)..Len(s) : s[j] # c
    ELSE 0

\* str.split(sep): the pieces between the occurrences of sep, left to right
RECURSIVE split(_, _)
split(s, sep) ==
    Only({IF i = 0 THEN <<s>>
          ELSE Only({<<SubSeq(s, 1, i - 1)>> \o split(rest, sep) :
                        rest \in {From(s, i + Len(sep))}}) :
            i \in {find(s, sep)}})

\* str.replace(c, "")
remove(s, c) == SelectSeq(s, LAMBDA x : x # c)

RECURSIVE lstrip(_)
lstrip(s) == IF s # <<>> /\ IsSpace(Head(s)) THEN lstrip(Tail(s)) ELSE s

RECURSIVE rstrip(_)
rstrip(s) ==
    IF s # <<>> /\ IsSpace(s[Len(s)]) THEN rstrip(SubSeq(s, 1, Len(s) - 1)) ELSE s

\* str.strip()
strip(s) == rstrip(lstrip(s))

RECURSIVE concat(_)
concat(parts) == IF parts = <<>> THEN <<>> ELSE Head(parts) \o concat(Tail(parts))

RECURSIVE join(_, _)
join(parts, sep) ==
    IF parts = <<>> THEN <<>>
    ELSE IF Len(parts) = 1 THEN Head(parts)
    ELSE Head(parts) \o sep \o join(Tail(parts), sep)

(* --------------------------- identifiers ------------------------------ *)
\* key_bytes: None and "" contribute no bytes to a digest
key_bytes(part) == IF part = None THEN <<>> ELSE part

\* make_entity_id: the digest of the concatenated parts, None when there are
\* no bytes.  The digest is collision-free: it is the bytes in braces.
make_entity_id(parts) ==
    LET bytes == concat([i \in DOMAIN parts |-> key_bytes(parts[i])])
    IN  IF bytes = <<>> THEN None ELSE <<"{">> \o bytes \o <<"}">>

IsDigest(p) == p # <<>> /\ p[1] = "{"

RECURSIVE squeeze(_)
squeeze(s) ==
    IF Len(s) < 2 THEN s
    ELSE IF s[1] = "-" /\ s[2] = "-" THEN squeeze(Tail(s))
    ELSE <<Head(s)>> \o squeeze(Tail(s))

RECURSIVE trimDash(_)
trimDash(s) ==
    IF s # <<>> /\ Head(s) = "-" THEN trimDash(Tail(s))
    ELSE IF s # <<>> /\ s[Len(s)] = "-" THEN trimDash(SubSeq(s, 1, Len(s) - 1))
    ELSE s

\* slugify: lower case, every run of other characters one dash; a hex digest
\* is its own slug
slugify(p) ==
    IF IsDigest(p) THEN p
    ELSE trimDash(squeeze([i \in DOMAIN p |->
            IF IsLetter(p[i]) \/ IsDigit(p[i]) THEN LowerChar(p[i]) ELSE "-"]))

\* context.make_slug(*parts): the dataset prefix and the slugs of the parts
make_slug(prefix, parts) ==
    LET slugs == SelectSeq([i \in DOMAIN parts |-> slugify(key_bytes(parts[i]))],
                           LAMBDA x : x # <<>>)
    IN  IF slugs = <<>> THEN None ELSE join(<<prefix>> \o slugs, <<"-">>)

\* context.make_id(*parts): the slug of the digest, None without key bytes
make_id(prefix, parts) ==
    LET hashed == make_entity_id(parts)
    IN  IF hashed = None THEN None ELSE make_slug(prefix, <<hashed>>)

(* ----------------------------- entities ------------------------------- *)
\* context.make(schema)
make(schema) == [schema |-> schema, id |-> None, props |-> {}]

setId(e, id) == [e EXCEPT !.id = id]

\* the country codes of the inputs
Countries == {<<"m","d">>, <<"r","o">>, <<"r","u">>, <<"c","y">>, <<"d","e">>}

\* the properties of type country
CountryProps == {"country", "jurisdiction"}

\* the value a property keeps: a country must be a known code
clean(prop, value) ==
    IF value = None \/ ~IsStr(value) THEN None
    ELSE IF prop \in CountryProps
         THEN (IF lower(strip(value)) \in Countries THEN lower(strip(value)) ELSE None)
         ELSE value

\* entity.add(prop, value): None and empty values add nothing
add(e, prop, value) ==
    LET v == clean(prop, value)
    IN  IF v = None \/ v = <<>> THEN e
        ELSE [e EXCEPT !.props = @ \cup {<<prop, v>>}]

\* entity.has(prop)
has(e, prop) == \E pv \in e.props : pv[1] = prop

Values(e, prop) == {pv[2] : pv \in {x \in e.props : x[1] = prop}}

IsRel(e) == e.schema \in {"Directorship", "Ownership"}

(* ------------------------------ context ------------------------------- *)
\* the run: the emitted stream, the exception that ended it ("" while it
\* runs), the lru_cache of parse_officer_company_name, and the values that
\* function returned while the current record was read
Ctx(o, e, c) == [out |-> o, err |-> e, cache |-> c, calls |-> <<>>]

\* context.emit(entity)
emit(ctx, e) == [ctx EXCEPT !.out = Append(@, e)]

raise(ctx, exc) == [ctx EXCEPT !.err = exc]

(* ============================ md_companies ============================ *)
MdPrefix == <<"m","d">>
MinNameLen == 3

\* a plausible slip: the fragment is cut at its first "[" instead of its last
split_director_first(frag) ==
    LET k == find(frag, <<"[">>)
    IN  [director |-> strip(IF k = 0 THEN frag ELSE SubSeq(frag, 1, k - 1)),
         role |-> IF k = 0 THEN None ELSE strip(remove(From(frag, k + 1), "]"))]

\* the name and the role of one fragment: rsplit("[", 1) unpacks into two only
\* when "[" occurs, otherwise the ValueError leaves the fragment and role None
split_director(frag) ==
    LET k == rfind(frag, "[")
    IN  [director |-> strip(IF k = 0 THEN frag ELSE SubSeq(frag, 1, k - 1)),
         role |-> IF k = 0 THEN None ELSE strip(remove(From(frag, k + 1), "]"))]

\* one turn of the loop of parse_directors over the fragments
RECURSIVE directors_loop(_, _, _)
directors_loop(ctx, company, frags) ==
    IF frags = <<>> THEN ctx
    ELSE
      LET parts == split_director(Head(frags))
          role == parts.role
          director == parts.director
          dir == add(setId(make("LegalEntity"),
                           make_id(MdPrefix, <<company.id, director>>)),
                     "name", director)
          dship == add(add(add(setId(make("Directorship"),
                                     make_id(MdPrefix, <<<<"D","i","r","e","c","t","o","r","s","h","i","p">>, company.id,
                                                         director, role>>)),
                               "organization", company.id),
                           "director", dir.id),
                       "role", role)
      IN  IF Len(director) < MinNameLen
          THEN directors_loop(ctx, company, Tail(frags))
          ELSE directors_loop(emit(emit(ctx, dir), dship), company, Tail(frags))

parse_directors(ctx, company, directors) ==
    IF ctx.err # "" THEN ctx
    ELSE IF directors = None THEN ctx
    ELSE IF ~IsStr(directors) THEN raise(ctx, "AttributeError")
    ELSE directors_loop(ctx, company, split(directors, <<"]",",">>))

RECURSIVE founders_loop(_, _, _)
founders_loop(ctx, company, frags) ==
    IF frags = <<>> THEN ctx
    ELSE
      LET frag == remove(Head(frags), ")")
          k == rfind(frag, "(")
          percentage == IF k = 0 THEN None ELSE From(frag, k + 1)
          founder == strip(IF k = 0 THEN frag ELSE SubSeq(frag, 1, k - 1))
          found == add(setId(make("LegalEntity"),
                             make_id(MdPrefix, <<company.id, founder>>)),
                       "name", founder)
          own == add(add(add(setId(make("Ownership"),
                                   make_id(MdPrefix, <<<<"O","w","n","e","r","s","h","i","p">>, company.id, founder>>)),
                             "asset", company.id),
                         "owner", found.id),
                     "role", percentage)
      IN  founders_loop(emit(emit(ctx, found), own), company, Tail(frags))

parse_founders(ctx, company, founders) ==
    IF ctx.err # "" THEN ctx
    ELSE IF founders = None THEN ctx
    ELSE IF founders = IntVal THEN ctx
    ELSE founders_loop(ctx, company, split(founders, <<")",",">>))

RECURSIVE owners_loop(_, _, _)
owners_loop(ctx, company, frags) ==
    IF frags = <<>> THEN ctx
    ELSE
      LET frag == remove(Head(frags), ")")
          k == rfind(frag, "(")
          country == IF k = 0 THEN None ELSE From(frag, k + 1)
          owner == strip(IF k = 0 THEN frag ELSE SubSeq(frag, 1, k - 1))
          bo == add(add(setId(make("LegalEntity"),
                              make_id(MdPrefix, <<company.id, owner>>)),
                        "name", owner),
                    "country", country)
          own == add(add(add(setId(make("Ownership"),
                                   make_id(MdPrefix, <<<<"O","w","n","e","r","s","h","i","p">>, company.id, owner>>)),
                             "asset", company.id),
                         "owner", bo.id),
                     "role", <<"b","e","n","e","f","i","c","i","a","r","i","l","o","r"," ","e","f","e","c","t","i","v","i">>)
      IN  owners_loop(emit(emit(ctx, bo), own), company, Tail(frags))

parse_owners(ctx, company, owners) ==
    IF ctx.err # "" THEN ctx
    ELSE IF owners = None THEN ctx
    ELSE IF ~IsStr(owners) THEN raise(ctx, "AttributeError")
    ELSE owners_loop(ctx, company, split(owners, <<")",",">>))

\* the id parse_company gives the company
md_company_id(data) ==
    IF data.idno # None THEN <<"o","c","-","c","o","m","p","a","n","i","e","s","-","m","d","-">> \o data.idno
    ELSE make_id(MdPrefix, <<data.name, data.address>>)

parse_company(ctx, data) ==
    LET company == add(add(add(add(add(add(setId(make("Company"), md_company_id(data)),
                       "name", data.name),
                       "incorporationDate", data.incorporated),
                       "dissolutionDate", data.dissolved),
                       "jurisdiction", <<"m","d">>),
                       "address", data.address),
                       "legalForm", data.legalForm)
        c1 == parse_directors(ctx, company, data.directors)
        c2 == parse_founders(c1, company, data.founders)
        c3 == parse_owners(c2, company, data.owners)
    IN  IF company.id = None THEN ctx
        ELSE IF c3.err # "" THEN c3
        ELSE emit(c3, company)

(* ------------------------- md_companies inputs ------------------------ *)
MdRow(idno, name, address, directors, founders, owners) ==
    [idno |-> idno, name |-> name, address |-> address,
     incorporated |-> None, dissolved |-> None, legalForm |-> None,
     directors |-> directors, founders |-> founders, owners |-> owners]

NoMdRow == MdRow(None, None, None, None, None, None)

\* the items of a well-formed directors field
DirNames == {<<"A","l","i","c","e">>, <<" ","B","[","o","b">>}
DirRoles == {<<"D","i","r","e","c","t","o","r">>}
DirItems == [name : DirNames, role : DirRoles]
ItemLists == UNION {[1..n -> DirItems] : n \in 1..MaxItems}

\* 'name_1 [role_1],name_2 [role_2]...'
FormatDirectors(items) ==
    join([i \in DOMAIN items |-> items[i].name \o <<" ","[">> \o items[i].role \o <<"]">>],
         <<",">>)

DirectorsValues ==
    {FormatDirectors(items) : items \in ItemLists}
    \cup {None, IntVal,
          <<"A","l","i","c","e"," ","[","D","i","r","e","c","t","o","r","]",","," ","B","o","b"," ","[","S","e","c","r","e","t","a","r","y","]">>,
          <<"A","l","i","c","e"," ","[","D","i","r","e","c","t","o","r","]",",">>,
          <<"A","l","i","c","e"," ","[","D","i","r","e","c","t","o","r","]",","," ","A","l","i","c","e"," ","[","D","i","r","e","c","t","o","r","]">>,
          <<"A","l","i","c","e">>,
          <<"A","l"," ","[","D","i","r","e","c","t","o","r","]",","," ","B","o","b"," ","[","S","e","c","r","e","t","a","r","y","]">>}

FoundersValues ==
    {IntVal, <<"A","l","i","c","e"," ","(","5","0","%",")">>, <<"A","l","i","c","e"," ","(","5","0","%",")",",">>, <<"A","l","i","c","e"," ","(","5","0","%",")",","," ","B","o","b"," ","(","5","0","%",")">>,
     <<"A","l","i","c","e"," ","(","5","0","%",")",","," ","A","l","i","c","e"," ","(","5","0","%",")">>}

OwnersValues ==
    {IntVal, <<"A","l","i","c","e"," ","(","m","d",")">>, <<"A","l","i","c","e"," ","(","m","d",")",",">>, <<"A","l","i","c","e"," ","(","M","o","l","d","o","v","a",")",","," ","B","o","b"," ","(","r","o",")">>}

MdRows ==
    {MdRow(<<"1">>, <<"A","c","m","e">>, None, d, None, None) : d \in DirectorsValues}
    \cup {MdRow(<<"1">>, <<"A","c","m","e">>, None, None, f, None) : f \in FoundersValues}
    \cup {MdRow(<<"1">>, <<"A","c","m","e">>, None, None, None, o) : o \in OwnersValues}
    \cup {MdRow(<<"1">>, <<"A","c","m","e">>, None, <<"A","l","i","c","e"," ","[","D","i","r","e","c","t","o","r","]">>, <<"A","l","i","c","e"," ","(","5","0","%",")">>, <<"A","l","i","c","e"," ","(","m","d",")">>),
          MdRow(<<"1">>, <<"A","c","m","e">>, None, IntVal, <<"A","l","i","c","e"," ","(","5","0","%",")">>, <<"A","l","i","c","e"," ","(","m","d",")">>),
          MdRow(<<"1">>, <<"A","c","m","e">>, None, <<"A","l","i","c","e"," ","[","D","i","r","e","c","t","o","r","]">>, IntVal, <<"A","l","i","c","e"," ","(","m","d",")">>),
          MdRow(<<"1">>, <<"A","c","m","e">>, None, <<"A","l","i","c","e"," ","[","D","i","r","e","c","t","o","r","]">>, <<"A","l","i","c","e"," ","(","5","0","%",")">>, IntVal),
          MdRow(<<"2">>, <<"B","o","l","t">>, <<"C","h","i","s","i","n","a","u">>, <<"A","l","i","c","e"," ","[","D","i","r","e","c","t","o","r","]">>, None, None),
          MdRow(None, <<"B","o","l","t">>, <<"C","h","i","s","i","n","a","u">>, <<"A","l","i","c","e"," ","[","D","i","r","e","c","t","o","r","]">>, None, None),
          MdRow(None, None, None, <<"A","l","i","c","e"," ","[","D","i","r","e","c","t","o","r","]">>, None, None)}

(* ========================== de_offeneregister ========================= *)
DePrefix == <<"d","e">>

\* a dict as a set of <<key, value>> pairs
Keys(d) == {kv[1] : kv \in d}
Get(d, k) == (CHOOSE kv \in d : kv[1] = k)[2]
GetOr(d, k, default) == IF k \in Keys(d) THEN Get(d, k) ELSE default
Without(d, ks) == {kv \in d : kv[1] \notin ks}

SCHEMES ==
    {<<<<"H","R","A">>, <<"Company", <<"U","n","t","e","r","n","e","h","m","e","n">>>> >>,
     <<<<"H","R","B">>, <<"Company", <<"K","a","p","i","t","a","l","g","e","s","e","l","l","s","c","h","a","f","t">>>> >>,
     <<<<"V","R">>, <<"Organization", <<"V","e","r","e","i","n">>>> >>,
     <<<<"P","R">>, <<"Organization", <<"P","a","r","t","n","e","r","s","c","h","a","f","t"," ","(","P","e","r","s","o","n","e","n","g","e","s","e","l","l","s","c","h","a","f","t",")">>>> >>,
     <<<<"G","n","R">>, <<"Organization", <<"G","e","n","o","s","s","e","n","s","c","h","a","f","t">>>> >>}

REL_SCHEMS ==
    {<<<<"G","e","s","c","h","ä","f","t","s","f","ü","h","r","e","r">>, "Directorship">>,
     <<<<"I","n","h","a","b","e","r">>, "Ownership">>,
     <<<<"L","i","q","u","i","d","a","t","o","r">>, "Directorship">>,
     <<<<"P","e","r","s","ö","n","l","i","c","h"," ","h","a","f","t","e","n","d","e","r"," ","G","e","s","e","l","l","s","c","h","a","f","t","e","r">>, "Ownership">>,
     <<<<"P","r","o","k","u","r","i","s","t">>, "Directorship">>,
     <<<<"V","o","r","s","t","a","n","d">>, "Directorship">>}

MAPPING ==
    {<<<<"f","i","r","s","t","n","a","m","e">>, "firstName">>,
     <<<<"l","a","s","t","n","a","m","e">>, "lastName">>,
     <<<<"c","i","t","y">>, "address">>,
     <<<<"s","t","a","r","t","_","d","a","t","e">>, "startDate">>,
     <<<<"e","n","d","_","d","a","t","e">>, "endDate">>,
     <<<<"p","o","s","i","t","i","o","n">>, "role">>,
     <<<<"f","l","a","g">>, "description">>}

\* schema.is_a: the schemata a schema extends in the followthemoney model
Extends(schema) ==
    CASE schema = "Company" -> {"Company", "Organization", "Asset", "LegalEntity", "Thing"}
      [] schema = "Organization" -> {"Organization", "LegalEntity", "Thing"}
      [] schema = "Person" -> {"Person", "LegalEntity", "Thing"}
      [] schema = "LegalEntity" -> {"LegalEntity", "Thing"}
      [] schema = "Directorship" -> {"Directorship", "Interest", "Interval"}
      [] schema = "Ownership" -> {"Ownership", "Interest", "Interval"}
      [] OTHER -> {schema}

\* the properties a schema of the followthemoney model declares itself, of
\* those the parsers set
OwnProps(schema) ==
    CASE schema = "Thing" ->
            {"name", "summary", "description", "country", "address", "previousName",
             "modifiedAt", "retrievedAt"}
      [] schema = "LegalEntity" ->
            {"legalForm", "incorporationDate", "dissolutionDate", "status",
             "registrationNumber", "jurisdiction", "opencorporatesUrl"}
      [] schema = "Person" -> {"firstName", "lastName"}
      [] schema = "Interval" ->
            {"startDate", "endDate", "summary", "description", "modifiedAt", "retrievedAt"}
      [] schema = "Interest" -> {"role", "status"}
      [] schema = "Directorship" -> {"director", "organization"}
      [] schema = "Ownership" -> {"owner", "asset"}
      [] OTHER -> {}

\* the properties an entity of the schema can carry
Props(schema) == UNION {OwnProps(x) : x \in Extends(schema)}

is_a(schema, other) == other \in Extends(schema)

(* the alternatives of reg_type, in the order of the pattern *)
RegTypes == << <<"H","R","A">>, <<"H","R","B">>, <<"V","R">>, <<"P","R">>, <<"G","n","R">> >>

NoMatch == [matched |-> FALSE, groups |-> {}]

\* the last position of the longest run of characters of Chars that starts at p
\* (p - 1 when s[p] is none)
RunEnd(s, p, Chars) ==
    IF p < 1 \/ p > Len(s) THEN p - 1
    ELSE LET stops == {j \in p..Len(s) : s[j] \notin Chars}
         IN  IF stops = {} THEN Len(s)
             ELSE Min(stops) - 1

\* the last position "." can match from p on: "." matches all but the newline
DotEnd(s, p) ==
    IF p < 1 \/ p > Len(s) THEN p - 1
    ELSE LET stops == {j \in p..Len(s) : s[j] = "\n"}
         IN  IF stops = {} THEN Len(s) ELSE Min(stops) - 1

\* text t (matched ignoring case) occurs in s at position q
OccursAtI(s, t, q) ==
    /\ q >= 1
    /\ q + Len(t) - 1 <= Len(s)
    /\ \A k \in DOMAIN t : LowerChar(s[q + k - 1]) = LowerChar(t[k])

IsAt(s, q, c) == q >= 1 /\ q <= Len(s) /\ s[q] = c
SpaceAt(s, q) == q >= 1 /\ q <= Len(s) /\ IsSpace(s[q])

\* (?P<reg_type>(HRA|HRB|VR|PR|GnR)) at q: the index of the first alternative
\* that matches there, 0 when none does
RegTypeAt(s, q) ==
    IF \E i \in DOMAIN RegTypes : OccursAtI(s, RegTypes[i], q)
    THEN CHOOSE i \in DOMAIN RegTypes :
            /\ OccursAtI(s, RegTypes[i], q)
            /\ \A j \in 1..(i - 1) : ~OccursAtI(s, RegTypes[j], q)
    ELSE 0

\* \s(?P<reg_type>..)\s(?P<reg_nr>[\d]+)\) matches from position q
RegTailAt(s, q) ==
    /\ SpaceAt(s, q)
    /\ \E i \in {RegTypeAt(s, q + 1)} :
          /\ i # 0
          /\ SpaceAt(s, q + 1 + Len(RegTypes[i]))
          /\ \E dEnd \in {RunEnd(s, q + 1 + Len(RegTypes[i]) + 1, Digits)} :
                /\ dEnd >= q + 1 + Len(RegTypes[i]) + 1
                /\ IsAt(s, dEnd + 1, ")")
                    
\* the captures of the court tail: reg ends at e, the reg_type that follows is
\* alternative i, reg_nr ends at dEnd, then "\)", ",?", "\s?" and the summary
court_groups(s, r, e, i, dEnd) ==
    LET t == e + 2
        d == t + Len(RegTypes[i]) + 1
        afterParen == dEnd + 2
        afterComma == IF IsAt(s, afterParen, ",") THEN afterParen + 1 ELSE afterParen
        afterSpace == IF SpaceAt(s, afterComma) THEN afterComma + 1 ELSE afterComma
    IN  [matched |-> TRUE,
         groups |-> {<<"reg", SubSeq(s, r, e)>>,
                     <<"reg_type", SubSeq(s, t, t + Len(RegTypes[i]) - 1)>>,
                     <<"reg_nr", SubSeq(s, d, dEnd)>>,
                     <<"summary", SubSeq(s, afterSpace, DotEnd(s, afterSpace))>>}]

\* [\w]+gericht\s(?P<reg>.+)\s(?P<reg_type>..)\s(?P<reg_nr>[\d]+)\),?\s?(?P<summary>.*)
\* matched from position p, the position after "\(".  The word run that ends
\* in "gericht" ends at wEnd.  Greedy: the longest reg for which the rest
\* matches.
court_reg(s, p, wEnd) ==
    IF /\ wEnd - p + 1 >= 8
       /\ OccursAtI(s, <<"g","e","r","i","c","h","t">>, wEnd - 6)
       /\ SpaceAt(s, wEnd + 1)
    THEN Only({IF regEnds = {} THEN NoMatch
               ELSE Only({Only({Only({court_groups(s, wEnd + 2, e, i, dEnd) :
                                        dEnd \in {RunEnd(s, e + 2 + Len(RegTypes[i]) + 1,
                                                          Digits)}}) :
                                  i \in {RegTypeAt(s, e + 2)}}) :
                            e \in {Max(regEnds)}}) :
                 regEnds \in {{e \in (wEnd + 2)..DotEnd(s, wEnd + 2) :
                                RegTailAt(s, e + 1)}}})
    ELSE NoMatch

CourtTail(s, p) == Only({court_reg(s, p, wEnd) : wEnd \in {RunEnd(s, p, WordChars)}})

\* RE_PATTERNS[0]: (?P<name>.*),\s(?P<city>[\w\s-]+)\s\( and the court tail.
\* n is the length of name; the city runs up to the whitespace before the first
\* character outside [\w\s-], which must be "(".
CityChars == WordChars \cup SpaceSet \cup {"-"}

with_city(s, n, cEnd) ==
    IF /\ cEnd - 1 >= n + 3
       /\ SpaceAt(s, cEnd)
       /\ IsAt(s, cEnd + 1, "(")
    THEN Only({IF tail.matched
               THEN [matched |-> TRUE,
                     groups |-> {<<"name", SubSeq(s, 1, n)>>,
                                 <<"city", SubSeq(s, n + 3, cEnd - 1)>>}
                                \cup tail.groups]
               ELSE NoMatch :
                 tail \in {CourtTail(s, cEnd + 2)}})
    ELSE NoMatch

CityAt(s, n) ==
    IF IsAt(s, n + 1, ",") /\ SpaceAt(s, n + 2)
    THEN Only({with_city(s, n, cEnd) : cEnd \in {RunEnd(s, n + 3, CityChars)}})
    ELSE NoMatch

\* RE_PATTERNS[1]: (?P<name>.*)\s\( and the court tail
NoCityAt(s, n) ==
    IF SpaceAt(s, n + 1) /\ IsAt(s, n + 2, "(")
    THEN Only({IF tail.matched
               THEN [matched |-> TRUE,
                     groups |-> {<<"name", SubSeq(s, 1, n)>>} \cup tail.groups]
               ELSE NoMatch :
                 tail \in {CourtTail(s, n + 3)}})
    ELSE NoMatch

\* pat.match(name): greedy (?P<name>.*), the longest name for which the rest
\* of the pattern matches
PatMatch(i, s) ==
    LET At(n) == IF i = 1 THEN CityAt(s, n) ELSE NoCityAt(s, n)
    IN  Only({IF ns = {} THEN NoMatch ELSE At(Max(ns)) :
                ns \in {{n \in 0..DotEnd(s, 1) : At(n).matched}}})

NumPatterns == 2

\* the body of parse_officer_company_name: the groupdict of the first pattern
\* that matches, None (matched FALSE) when the loop ends without one
RECURSIVE first_match(_, _)
first_match(i, name) ==
    IF i > NumPatterns THEN NoMatch
    ELSE Only({IF m.matched THEN m ELSE first_match(i + 1, name) :
                 m \in {PatMatch(i, name)}})

\* functools.lru_cache without arguments
LruMaxsize == 128

CacheIndex(cch, name) ==
    IF \E i \in DOMAIN cch : cch[i].text = name
    THEN CHOOSE i \in DOMAIN cch : cch[i].text = name
    ELSE 0

RemoveAt(s, i) == SubSeq(s, 1, i - 1) \o SubSeq(s, i + 1, Len(s))

\* @lru_cache parse_officer_company_name(name): the cache after the call, its
\* last entry the object the call returns.  A hit returns the cached object
\* itself and makes it the most recent; a miss computes, stores and evicts the
\* least recent entry beyond maxsize.
parse_officer_company_name(cch, name) ==
    LET i == CacheIndex(cch, name)
    IN  IF i # 0 THEN Append(RemoveAt(cch, i), cch[i])
        ELSE Only({IF Len(cch) + 1 > LruMaxsize
                   THEN Tail(Append(cch, [text |-> name, matched |-> m.matched,
                                          groups |-> m.groups]))
                   ELSE Append(cch, [text |-> name, matched |-> m.matched,
                                     groups |-> m.groups]) :
                     m \in {first_match(1, name)}})

\* followthemoney join_text(*parts, sep=sep): the non-empty parts, joined
join_text(parts, sep) ==
    LET kept == SelectSeq(parts, LAMBDA x : x # None /\ x # <<>>)
    IN  IF kept = <<>> THEN None ELSE join(kept, sep)

\* fingerprints.generate, reduced to case folding and blank trimming
fp(name) ==
    LET t == strip(lower(name)) IN IF t = <<>> THEN None ELSE t

\* proxy.add(prop, value, quiet=True): a property the schema lacks is skipped
add_quiet(e, prop, value) == IF prop \in Props(e.schema) THEN add(e, prop, value) ELSE e

\* proxy.add(MAPPING[key], value, quiet=True) for the mapped other_attributes
RECURSIVE add_mapped(_, _)
add_mapped(e, attrs) ==
    IF attrs = {} THEN e
    ELSE LET kv == CHOOSE x \in attrs : TRUE
         IN  add_mapped(IF kv[1] \in Keys(MAPPING)
                        THEN add_quiet(e, Get(MAPPING, kv[1]), kv[2]) ELSE e,
                        attrs \ {kv})

\* a plausible slip: the kind of the company is not looked at
make_rel_any_company(ctx, company, officer, data, summary) ==
    LET type_ == data.position
        schema == Get(REL_SCHEMS, type_)
        start == IF schema = "Ownership"
                 THEN add(add(make(schema), "owner", officer.id), "asset", company.id)
                 ELSE add(add(make("Directorship"), "director", officer.id),
                          "organization", company.id)
        proxy == add_mapped(
                   add(add(setId(start,
                                 make_slug(DePrefix,
                                           <<<<"r","e","l">>, make_entity_id(<<company.id, officer.id,
                                                                      type_>>)>>)),
                           "role", type_),
                       "summary", summary),
                   data.other_attributes)
    IN  IF type_ \notin Keys(REL_SCHEMS) THEN raise(ctx, "KeyError")
        ELSE emit(ctx, proxy)

make_rel(ctx, company, officer, data, summary) ==
    LET type_ == data.position
        schema == Get(REL_SCHEMS, type_)
        owned == schema = "Ownership" /\ is_a(company.schema, "Asset")
        start == IF owned
                 THEN add(add(make(schema), "owner", officer.id), "asset", company.id)
                 ELSE add(add(make("Directorship"), "director", officer.id),
                          "organization", company.id)
        proxy == add_mapped(
                   add(add(setId(start,
                                 make_slug(DePrefix,
                                           <<<<"r","e","l">>, make_entity_id(<<company.id, officer.id,
                                                                      type_>>)>>)),
                           "role", type_),
                       "summary", summary),
                   data.other_attributes)
    IN  IF type_ \notin Keys(REL_SCHEMS) THEN raise(ctx, "KeyError")
        ELSE emit(ctx, proxy)

officer_id(company, name) ==
    make_slug(DePrefix, <<<<"o","f","f","i","c","e","r">>, make_entity_id(<<company.id, fp(name)>>)>>)

PoppedGroups == {"name", "city", "reg", "reg_type", "reg_nr", "summary"}

\* make_officer_and_rel once the officer proxy is built: the relationship is
\* made and emitted first, the officer after it
rel_then_officer(ctx, company, proxy, data, rel_summary) ==
    Only({IF c.err # "" THEN c ELSE emit(c, proxy) :
            c \in {make_rel(ctx, company, proxy, data, rel_summary)}})

\* the branch type_ == "company", cch the cache after the call of
\* parse_officer_company_name, its last entry the dict the call returned
company_officer(ctx, company, data, cch) ==
    LET name == data.name
        parsed_data == cch[Len(cch)]
        \* "if parsed_data": None and the empty dict are both false
        truthy == parsed_data.matched /\ parsed_data.groups # {}
        g == parsed_data.groups
        reg == <<Get(g, "reg"), Get(g, "reg_type"), Get(g, "reg_nr")>>
        fromRef == setId(add(add(add(add(make("Company"),
                        "name", Get(g, "name")),
                        "address", GetOr(g, "city", None)),
                        "registrationNumber", join_text(reg, <<" ">>)),
                        "registrationNumber", join_text(Tail(reg), <<" ">>)),
                    make_slug(DePrefix, reg))
        opaque == setId(add(make("Company"), "name", name), officer_id(company, name))
        rel_summary == IF truthy THEN Get(g, "summary") ELSE None
        \* the pops empty the dict the cache holds
        cch2 == IF truthy
                THEN [cch EXCEPT ![Len(cch)].groups = Without(@, PoppedGroups)]
                ELSE cch
        calls2 == Append(ctx.calls, [text |-> name, matched |-> parsed_data.matched,
                                     groups |-> parsed_data.groups])
    IN  Only({rel_then_officer(c1, company, proxy, data, rel_summary) :
                c1 \in {[ctx EXCEPT !.cache = cch2, !.calls = calls2]},
                proxy \in {add_mapped(IF truthy THEN fromRef ELSE opaque,
                                       data.other_attributes)}})

make_officer_and_rel(ctx, company, data) ==
    LET type_ == data.type
        name == data.name
        opaque(schema) == setId(add(make(schema), "name", name), officer_id(company, name))
    IN  IF type_ = <<"c","o","m","p","a","n","y">>
        THEN Only({company_officer(ctx, company, data, cch) :
                     cch \in {parse_officer_company_name(ctx.cache, name)}})
        ELSE Only({rel_then_officer(ctx, company, proxy, data, None) :
                     proxy \in {add_mapped(IF type_ = <<"p","e","r","s","o","n">> THEN opaque("Person")
                                            ELSE opaque("LegalEntity"),
                                            data.other_attributes)}})

\* for value in values: proxy.add(prop, value)
RECURSIVE add_each(_, _, _)
add_each(e, prop, values) ==
    IF values = <<>> THEN e ELSE add_each(add(e, prop, Head(values)), prop, Tail(values))

make_company(data) ==
    LET reg_art == data.registerArt
        sl == Get(SCHEMES, reg_art)
        reg_nr == data.native_company_number
    IN  add(add_each(add(add(add(add(add(add(setId(add(add(make(sl[1]),
            "legalForm", sl[2]),
            "registrationNumber", reg_nr),
            make_slug(DePrefix, <<reg_nr>>)),
            "registrationNumber", reg_art \o <<" ">> \o data.registerNummer),
            "status", data.current_status),
            "opencorporatesUrl",
                <<"h","t","t","p","s",":","/","/","o","p","e","n","c","o","r","p","o","r","a","t","e","s",".","c","o","m","/","c","o","m","p","a","n","i","e","s","/","d","e","/">> \o data.company_number),
            "jurisdiction", data.jurisdiction_code),
            "name", data.name),
            "address", data.registered_address),
            "previousName", data.previous_names),
            "retrievedAt", data.retrieved_at)

RECURSIVE officers_loop(_, _, _)
officers_loop(ctx, company, officers) ==
    IF officers = <<>> \/ ctx.err # "" THEN ctx
    ELSE Only({officers_loop(c, company, Tail(officers)) :
                 c \in {make_officer_and_rel(ctx, company, Head(officers))}})

parse_record(ctx, record) ==
    IF record.registerArt \notin Keys(SCHEMES) THEN raise(ctx, "KeyError")
    ELSE Only({Only({officers_loop(c, company, record.officers) :
                        c \in {emit(ctx, company)}}) :
                 company \in {make_company(record)}})

(* ----------------------- de_offeneregister inputs --------------------- *)
DeRecord(art, native, nummer, name, previous, officers) ==
    [registerArt |-> art, native_company_number |-> native, registerNummer |-> nummer,
     company_number |-> native, jurisdiction_code |-> <<"d","e">>, name |-> name,
     current_status |-> None, registered_address |-> None,
     previous_names |-> previous, retrieved_at |-> <<"2","0","2","2">>, officers |-> officers]

Officer(type, name, position, attrs) ==
    [type |-> type, name |-> name, position |-> position, other_attributes |-> attrs]

NoDeRecord == DeRecord(None, None, None, None, <<>>, <<>>)

RefCity == <<"H","A"," ","I","n","v","e","s","t"," ","G","m","b","H",","," ","H","a","m","b","u","r","g"," ","(","A","m","t","s","g","e","r","i","c","h","t"," ","H","a","m","b","u","r","g"," ","H","R","B"," ","1","2","5","6","1","7",")",".">>
RefSummary == <<"V","G"," ","m","b","H",","," ","B","a","d"," ","O","l","d","e","s","l","o","e"," ","(","A","m","t","s","g","e","r","i","c","h","t"," ","L","ü","b","e","c","k"," ","H","R","B"," ","1","3","9"," ","B",")",","," ","b","e","f","u","g","t"," ","(","s","i","e","h","e"," ","H","R","B"," ","7",")",".">>
RefNoCity == <<"H","A"," ","I","n","v","e","s","t"," ","G","m","b","H"," ","(","A","m","t","s","g","e","r","i","c","h","t"," ","H","a","m","b","u","r","g"," ","H","R","B"," ","1","2","5","6","1","7",")">>
RefLower == <<"C","l","u","b"," ","e",".","V","."," ","(","a","m","t","s","G","E","R","I","C","H","T"," ","K","i","e","l"," ","v","r"," ","1","2",")">>
RefNone == <<"M","a","x"," ","M","u","s","t","e","r">>
RefBroken == <<"H","A"," ","I","n","v","e","s","t"," ","G","m","b","H",","," ","H","a","m","b","u","r","g"," ","(","G","e","r","i","c","h","t"," ","H","a","m","b","u","r","g"," ","H","R","B"," ","1","2","5","6","1","7",")">>

OfficerTexts == {RefCity, RefSummary, RefNoCity, RefLower, RefNone, RefBroken}

Officers ==
    {Officer(<<"c","o","m","p","a","n","y">>, t, <<"I","n","h","a","b","e","r">>, {}) : t \in OfficerTexts}
    \cup {Officer(<<"p","e","r","s","o","n">>, RefNone, p, {}) :
            p \in {<<"G","e","s","c","h","ä","f","t","s","f","ü","h","r","e","r">>, <<"I","n","h","a","b","e","r">>, <<"A","u","f","s","i","c","h","t","s","r","a","t">>}}
    \cup {Officer(<<"c","o","m","p","a","n","y">>, RefNone, <<"P","e","r","s","ö","n","l","i","c","h"," ","h","a","f","t","e","n","d","e","r"," ","G","e","s","e","l","l","s","c","h","a","f","t","e","r">>, {}),
          Officer(<<"c","o","m","p","a","n","y">>, RefNone, <<"A","u","f","s","i","c","h","t","s","r","a","t">>, {}),
          Officer(<<"p","e","r","s","o","n">>, <<"E","r","i","k","a"," ","M","u","s","t","e","r">>, <<"P","r","o","k","u","r","i","s","t">>,
                  {<<<<"f","i","r","s","t","n","a","m","e">>, <<"E","r","i","k","a">>>>, <<<<"p","o","s","i","t","i","o","n">>, <<"P","r","o","k","u","r","i","s","t","i","n">>>>,
                   <<<<"t","i","t","l","e">>, <<"D","r",".">>>>}),
          Officer(<<>>, RefNone, <<"V","o","r","s","t","a","n","d">>, {})}

OfficerLists ==
    {<<>>}
    \cup {<<o>> : o \in Officers}
    \cup {<<Officer(<<"c","o","m","p","a","n","y">>, RefCity, <<"I","n","h","a","b","e","r">>, {}),
            Officer(<<"c","o","m","p","a","n","y">>, RefCity, <<"I","n","h","a","b","e","r">>, {})>>,
          <<Officer(<<"p","e","r","s","o","n">>, RefNone, <<"I","n","h","a","b","e","r">>, {}),
            Officer(<<"c","o","m","p","a","n","y">>, RefNone, <<"I","n","h","a","b","e","r">>, {})>>,
          <<Officer(<<"p","e","r","s","o","n">>, RefNone, <<"A","u","f","s","i","c","h","t","s","r","a","t">>, {}),
            Officer(<<"p","e","r","s","o","n">>, RefNone, <<"I","n","h","a","b","e","r">>, {})>>,
          <<Officer(<<"c","o","m","p","a","n","y">>, RefNoCity, <<"I","n","h","a","b","e","r">>, {}),
            Officer(<<"c","o","m","p","a","n","y">>, RefCity, <<"L","i","q","u","i","d","a","t","o","r">>, {})>>}

DeRecords ==
    {DeRecord(<<"H","R","B">>, <<"H","a","m","b","u","r","g"," ","H","R","B"," ","1","2","5","6","1","7">>, <<"1","2","5","6","1","7">>, <<"H","A"," ","I","n","v","e","s","t"," ","G","m","b","H">>, <<>>, os) :
        os \in OfficerLists}
    \cup {DeRecord(<<"V","R">>, <<"K","i","e","l"," ","V","R"," ","9","9">>, <<"9","9">>, <<"V","e","r","e","i","n"," ","e",".","V",".">>, <<>>, os) :
            os \in OfficerLists}
    \cup {DeRecord(<<"H","R","A">>, <<"K","i","e","l"," ","H","R","A"," ","5">>, <<"5">>, <<"N","e","u"," ","K","G">>, << <<"A","l","t"," ","K","G">>, <<"U","r","a","l","t"," ","K","G">> >>, <<>>),
          DeRecord(<<"X","X">>, <<"K","i","e","l"," ","X","X"," ","3">>, <<"3">>, <<"G","a","m","m","a">>, <<>>, <<>>)}

(* ============================ cy_companies ============================ *)
CyPrefix == <<"c","y">>

TYPES == {<<<<"C">>, <<"H","E">>>>, <<<<"P">>, <<"S">>>>, <<<<"O">>, <<"A","E">>>>, <<<<"N">>, <<"B","N">>>>, <<<<"B">>, <<"B">>>>}

\* the texts strptime reads as %d: 3[0-1]|[1-2]\d|0[1-9]|[1-9]| [1-9]
IsDayText(t) ==
    \/ /\ Len(t) = 2
       /\ \/ t[1] = "3" /\ t[2] \in {"0", "1"}
          \/ t[1] \in {"1", "2"} /\ IsDigit(t[2])
          \/ t[1] \in {"0", " "} /\ IsDigit(t[2]) /\ t[2] # "0"
    \/ Len(t) = 1 /\ IsDigit(t[1]) /\ t[1] # "0"

\* the texts strptime reads as %m: 1[0-2]|0[1-9]|[1-9]
IsMonthText(t) ==
    \/ /\ Len(t) = 2
       /\ \/ t[1] = "1" /\ t[2] \in {"0", "1", "2"}
          \/ t[1] = "0" /\ IsDigit(t[2]) /\ t[2] # "0"
    \/ Len(t) = 1 /\ IsDigit(t[1]) /\ t[1] # "0"

\* the texts strptime reads as %Y: \d\d\d\d
IsYearText(t) == Len(t) = 4 /\ \A i \in 1..4 : IsDigit(t[i])

\* int(t) of a text of digits and blanks
RECURSIVE int(_)
int(t) ==
    IF t = <<>> THEN 0
    ELSE IF t[Len(t)] = " " THEN int(SubSeq(t, 1, Len(t) - 1))
    ELSE 10 * int(SubSeq(t, 1, Len(t) - 1)) + DigitVal(t[Len(t)])

IsLeap(y) == y % 4 = 0 /\ (y % 100 # 0 \/ y % 400 = 0)

DaysIn(m, y) ==
    IF m = 2 THEN (IF IsLeap(y) THEN 29 ELSE 28)
    ELSE IF m \in {4, 6, 9, 11} THEN 30
    ELSE 31

\* datetime.strptime(t, "%d/%m/%Y") returns: t is day/month/year with nothing
\* left over, and the three numbers are a date
IsDateText(t) ==
    \E parts \in {split(t, <<"/">>)} :
        /\ Len(parts) = 3
        /\ IsDayText(parts[1])
        /\ IsMonthText(parts[2])
        /\ IsYearText(parts[3])
        /\ int(parts[3]) >= 1
        /\ int(parts[1]) <= DaysIn(int(parts[2]), int(parts[3]))

\* the decimal text of n, w digits wide
RECURSIVE zfill(_, _)
zfill(n, w) == IF w = 0 THEN <<>> ELSE zfill(n \div 10, w - 1) \o <<DigitSeq[(n % 10) + 1]>>

\* parse_date: None for a blank text, else the date of a %d/%m/%Y text, as
\* the ISO text it is added as
parse_date(t) ==
    IF t = None \/ strip(t) = <<>> THEN None
    ELSE LET parts == split(t, <<"/">>)
         IN  zfill(int(parts[3]), 4) \o <<"-">> \o zfill(int(parts[2]), 2) \o <<"-">>
                \o zfill(int(parts[1]), 2)

\* parse_date raises ValueError
DateRaises(t) == ~(t = None \/ strip(t) = <<>>) /\ ~IsDateText(t)

company_id(org_type, reg_nr) ==
    lower(<<"o","c","-","c","o","m","p","a","n","i","e","s","-","c","y","-">> \o Get(TYPES, org_type) \o reg_nr)

SkippedTypes == {<<>>, <<"Ε","μ","π","ο","ρ","ι","κ","ή"," ","Ε","π","ω","ν","υ","μ","ί","α">>}

\* dict[key] = value
Put(d, k, v) == {x \in d : x[1] # k} \cup {<<k, v>>}

\* re.sub(r"\s+", " ", s)
RECURSIVE squeeze_spaces(_)
squeeze_spaces(s) ==
    IF s = <<>> THEN <<>>
    ELSE IF IsSpace(Head(s)) THEN <<" ">> \o squeeze_spaces(lstrip(Tail(s)))
    ELSE <<Head(s)>> \o squeeze_spaces(Tail(s))

\* normality collapse_spaces: every run of whitespace one blank, no blank at
\* either end
collapse_spaces(s) == strip(squeeze_spaces(s))

\* load_addresses(rows): the address text of every address number
RECURSIVE load_addresses(_, _)
load_addresses(addrs, rows) ==
    IF rows = <<>> THEN addrs
    ELSE LET row == Head(rows)
             address == join_text(<<row.building, row.street, row.territory>>, <<","," ">>)
         IN  load_addresses(
                IF row.seq_no = None \/ address = None THEN addrs
                ELSE Put(addrs, row.seq_no, collapse_spaces(remove(address, "_"))),
                Tail(rows))

\* one turn of the loop of parse_organisations
organisation_row(ctx, addrs, row) ==
    LET org_type == row.org_type
        reg_nr == row.reg_nr
        oc_id == Get(TYPES, org_type) \o reg_nr
        org_type_text == IF strip(row.subtype) # <<>>
                         THEN row.type_text \o <<" ","-"," ">> \o row.subtype
                         ELSE row.type_text
        entity ==
            add(add(add(add(add(add(add(add(add(add(
                setId(make("Company"), company_id(org_type, reg_nr)),
                "name", row.name),
                "status", row.status),
                IF org_type = <<"O">> THEN "country" ELSE "jurisdiction", <<"c","y">>),
                "opencorporatesUrl", <<"h","t","t","p","s",":","/","/","o","p","e","n","c","o","r","p","o","r","a","t","e","s",".","c","o","m","/","c","o","m","p","a","n","i","e","s","/","c","y","/">> \o oc_id),
                "registrationNumber", oc_id),
                "registrationNumber", org_type \o reg_nr),
                "legalForm", org_type_text),
                "incorporationDate", parse_date(row.reg_date)),
                "modifiedAt", parse_date(row.status_date)),
                "address", GetOr(addrs, row.addr_id, None))
    IN  IF org_type \in SkippedTypes THEN ctx
        ELSE IF org_type \notin Keys(TYPES) THEN raise(ctx, "KeyError")
        ELSE IF DateRaises(row.reg_date) \/ DateRaises(row.status_date)
             THEN raise(ctx, "ValueError")
        ELSE emit(ctx, entity)

\* one turn of the loop of parse_officials
official_row(ctx, row) ==
    LET org_type == row.org_type
        reg_nr == row.reg_nr
        name == row.name
        position == row.position
        entity == add(setId(make("LegalEntity"),
                            make_id(CyPrefix, <<org_type, reg_nr, name>>)),
                      "name", name)
        link == add(add(add(setId(make("Directorship"),
                                  make_id(CyPrefix, <<<<"D","i","r","e","c","t","o","r","s","h","i","p">>, org_type, reg_nr,
                                                      name, position>>)),
                            "organization", company_id(org_type, reg_nr)),
                        "director", entity.id),
                    "role", position)
    IN  IF org_type \notin Keys(TYPES) THEN ctx
        ELSE emit(emit(ctx, entity), link)

(* --------------------------- cy_companies inputs ---------------------- *)
OrgRow(org_type, reg_nr, name, subtype, reg_date, status_date, addr_id) ==
    [org_type |-> org_type, reg_nr |-> reg_nr, name |-> name, status |-> <<"A","c","t","i","v","e">>,
     type_text |-> <<"L","i","m","i","t","e","d"," ","C","o","m","p","a","n","y">>, subtype |-> subtype, reg_date |-> reg_date,
     status_date |-> status_date, addr_id |-> addr_id]

AddressRow(seq_no, building, street, territory) ==
    [seq_no |-> seq_no, building |-> building, street |-> street, territory |-> territory]

OfficialRow(org_type, reg_nr, name, position) ==
    [org_type |-> org_type, reg_nr |-> reg_nr, name |-> name, position |-> position]

OrgRows ==
    {OrgRow(t, <<"1">>, <<"K","y","p","r","o","s"," ","L","t","d">>, <<>>, <<>>, <<>>, <<"7","7">>) : t \in {<<"C">>, <<"O">>, <<>>, <<"X">>}}
    \cup {OrgRow(<<"C">>, <<"2">>, <<"N","i","s","o","s"," ","L","t","d">>, <<"P","r","i","v","a","t","e">>, <<"0","1","/","0","2","/","2","0","0","3">>, <<"9","/","3","/","2","0","0","4">>, <<"7","8">>),
          OrgRow(<<"Ε","μ","π","ο","ρ","ι","κ","ή"," ","Ε","π","ω","ν","υ","μ","ί","α">>, <<"3">>, <<"O","n","o","m","a">>, <<>>, <<>>, <<>>, <<>>),
          OrgRow(<<"C">>, <<"4">>, <<"L","a","t","h","o","s"," ","L","t","d">>, <<>>, <<"2","0","0","3","-","0","2","-","0","1">>, <<>>, <<>>),
          OrgRow(<<"C">>, <<"5">>, <<"A","r","g","i","a"," ","L","t","d">>, <<>>, <<"2","9","/","0","2","/","2","0","0","4">>, <<"3","1","/","0","2","/","2","0","0","4">>, <<>>)}

\* the rows of a registered_office_ file
AddressFiles ==
    {<<>>,
     <<AddressRow(<<"7","7">>, <<"1">>, <<"M","a","i","n","_","S","t">>, <<"N","i","c","o","s","i","a">>)>>,
     <<AddressRow(None, <<"2">>, <<"S","i","d","e"," ","S","t">>, <<"L","i","m","a","s","s","o","l">>),
       AddressRow(<<"7","7">>, <<>>, <<" ","O","l","d"," "," ","R","d"," ">>, <<"P","a","p","h","o","s">>),
       AddressRow(<<"7","8">>, <<"_">>, <<>>, <<>>)>>}

OfficialRows ==
    {OfficialRow(t, <<"1">>, <<"N","i","k","o","s">>, p) :
        t \in {<<"C">>, <<"X">>}, p \in {<<"D","i","r","e","c","t","o","r">>, <<"S","e","c","r","e","t","a","r","y">>}}
    \cup {OfficialRow(<<"C">>, <<"2">>, <<"N","i","k","o","s">>, <<"D","i","r","e","c","t","o","r">>)}

NoCyRow == OfficialRow(None, None, None, None)

\* zip.namelist(): the kinds of the files of the archive, in its order
FileOrders == {<<"organisations", "organisation_officials">>,
               <<"registered_office", "organisations", "organisation_officials">>,
               <<"organisation_officials", "organisations", "registered_office">>}

(* ------------------------------- run ---------------------------------- *)
Init ==
    /\ dataset \in {"md", "de", "cy"}
    /\ out = <<>>
    /\ err = ""
    /\ cache = <<>>
    /\ nrec = 0
    /\ files \in (IF dataset = "cy" THEN FileOrders ELSE {<<>>})
    /\ loadIdx = 1
    /\ addresses = {}
    /\ fileIdx = 1
    /\ lastMd = [row |-> NoMdRow, start |-> 0]
    /\ lastDe = [row |-> NoDeRecord, start |-> 0, calls |-> <<>>]
    /\ lastCy = [file |-> "", row |-> NoCyRow, start |-> 0]

\* the run reads on: no exception has ended it and input is left
Running == err = "" /\ nrec < MaxRecords

\* md_companies parse_companies: one data row through parse_company
MdParseCompany ==
    /\ dataset = "md"
    /\ Running
    /\ \E data \in MdRows :
         \E ctx \in {parse_company(Ctx(out, err, cache), data)} :
             /\ out' = ctx.out
             /\ err' = ctx.err
             /\ lastMd' = [row |-> data, start |-> Len(out)]
    /\ nrec' = nrec + 1
    /\ UNCHANGED <<dataset, cache, files, loadIdx, addresses, fileIdx, lastDe, lastCy>>

\* de_offeneregister parse: one line through parse_record
DeParseRecord ==
    /\ dataset = "de"
    /\ Running
    /\ \E record \in DeRecords :
         \E ctx \in {parse_record(Ctx(out, err, cache), record)} :
             /\ out' = ctx.out
             /\ err' = ctx.err
             /\ cache' = ctx.cache
             /\ lastDe' = [row |-> record, start |-> Len(out), calls |-> ctx.calls]
    /\ nrec' = nrec + 1
    /\ UNCHANGED <<dataset, files, loadIdx, addresses, fileIdx, lastMd, lastCy>>

\* cy_companies parse, first loop: the next name of zip.namelist(); the rows
\* of a registered_office_ file become the addresses
CyLoadAddresses ==
    /\ dataset = "cy"
    /\ err = ""
    /\ loadIdx \in DOMAIN files
    /\ IF files[loadIdx] = "registered_office"
       THEN \E rows \in AddressFiles : addresses' = load_addresses({}, rows)
       ELSE addresses' = addresses
    /\ loadIdx' = loadIdx + 1
    /\ UNCHANGED <<dataset, out, err, cache, nrec, files, fileIdx, lastMd, lastDe, lastCy>>

\* the second loop of parse is at a file of the kind
InFile(kind) == loadIdx > Len(files) /\ fileIdx \in DOMAIN files /\ files[fileIdx] = kind

\* cy_companies parse_organisations: one row of an organisations_ file
CyOrganisationRow ==
    /\ dataset = "cy"
    /\ Running
    /\ InFile("organisations")
    /\ \E row \in OrgRows :
         \E ctx \in {organisation_row(Ctx(out, err, cache), addresses, row)} :
             /\ out' = ctx.out
             /\ err' = ctx.err
             /\ lastCy' = [file |-> "organisations",
                           row |-> OfficialRow(row.org_type, row.reg_nr, row.name, None),
                           start |-> Len(out)]
    /\ nrec' = nrec + 1
    /\ UNCHANGED <<dataset, cache, files, loadIdx, addresses, fileIdx, lastMd, lastDe>>

\* cy_companies parse_officials: one row of an organisation_officials_ file
CyOfficialRow ==
    /\ dataset = "cy"
    /\ Running
    /\ InFile("organisation_officials")
    /\ \E row \in OfficialRows :
         \E ctx \in {official_row(Ctx(out, err, cache), row)} :
             /\ out' = ctx.out
             /\ err' = ctx.err
             /\ lastCy' = [file |-> "organisation_officials", row |-> row,
                           start |-> Len(out)]
    /\ nrec' = nrec + 1
    /\ UNCHANGED <<dataset, cache, files, loadIdx, addresses, fileIdx, lastMd, lastDe>>

\* cy_companies parse: the rows of a file are exhausted, on to the next name
\* of zip.namelist()
CyNextFile ==
    /\ dataset = "cy"
    /\ err = ""
    /\ loadIdx > Len(files)
    /\ fileIdx \in DOMAIN files
    /\ fileIdx' = fileIdx + 1
    /\ UNCHANGED <<dataset, out, err, cache, nrec, files, loadIdx, addresses, lastMd, lastDe,
                   lastCy>>

Next ==
    \/ MdParseCompany
    \/ DeParseRecord
    \/ CyLoadAddresses
    \/ CyOrganisationRow
    \/ CyOfficialRow
    \/ CyNextFile

Spec == Init /\ [][Next]_vars

(* ============================== claims ================================ *)
\* the entities a relationship names at its two ends
EndProps == {"organization", "director", "asset", "owner"}
Ends(e) == {pv[2] : pv \in {x \in e.props : x[1] \in EndProps}}

\* what the last record emitted
Segment(start) == SubSeq(out, start + 1, Len(out))

(* C1: ordering invariant.  Whenever a relationship is in the output stream,
   the entities named by its two ends were emitted earlier in the stream. *)
OrderingInvariant ==
    \A i \in DOMAIN out :
        IsRel(out[i]) =>
            \A id \in Ends(out[i]) :
                \E j \in 1..(i - 1) : ~IsRel(out[j]) /\ out[j].id = id

\* the last record read carries a coded value without mapping entry
UnknownCode ==
    /\ nrec > 0
    /\ \/ /\ dataset = "cy"
          /\ lastCy.row.org_type \notin Keys(TYPES) \cup SkippedTypes
       \/ /\ dataset = "de"
          /\ \/ lastDe.row.registerArt \notin Keys(SCHEMES)
             \/ \E k \in DOMAIN lastDe.row.officers :
                    lastDe.row.officers[k].position \notin Keys(REL_SCHEMS)

(* C2: per-record failure isolation.  A record with an unmapped code does not
   stop the run: no exception has ended it after that record. *)
FailureIsolation == UnknownCode => err = ""

(* C3: relationship identity.  Two emitted relationships have the same id
   exactly when they agree on kind, on the entities at both ends and on role. *)
RelationshipIdentity ==
    \A i, j \in DOMAIN out :
        (IsRel(out[i]) /\ IsRel(out[j])) =>
            ((out[i].id = out[j].id) <=>
                /\ out[i].schema = out[j].schema
                /\ \A p \in EndProps \cup {"role"} :
                        Values(out[i], p) = Values(out[j], p))

(* C4: cross-kind id isolation.  Two emitted entities of different kinds never
   have the same id. *)
CrossKindIsolation ==
    \A i, j \in DOMAIN out :
        (~IsRel(out[i]) /\ ~IsRel(out[j]) /\ out[i].schema # out[j].schema) =>
            out[i].id # out[j].id

\* the well-formed item lists the last directors field was formatted from
ItemsOfLast == {items \in ItemLists : FormatDirectors(items) = lastMd.row.directors}

DirectorPairs(items) ==
    LET seg == Segment(lastMd.start)
    IN  /\ Len(seg) >= 2 * Len(items)
        /\ Cardinality({k \in DOMAIN seg : seg[k].schema = "Directorship"}) = Len(items)
        /\ \A i \in DOMAIN items :
              LET dir == seg[2 * i - 1]
                  dship == seg[2 * i]
              IN  /\ dir.schema = "LegalEntity"
                  /\ Values(dir, "name") = {strip(items[i].name)}
                  /\ dship.schema = "Directorship"
                  /\ Values(dship, "role") = {items[i].role}
                  /\ Values(dship, "director") = {dir.id}
                  /\ Values(dship, "organization") = {md_company_id(lastMd.row)}

(* C5: decomposer on well-formed input.  A directors field made of n items
   'name [role]' yields exactly n LegalEntity/Directorship pairs, in input
   order, the i-th named by the trimmed name_i (all before the last "[") with
   role_i, and the run goes on. *)
DecomposerWellFormed ==
    (dataset = "md" /\ nrec > 0 /\ md_company_id(lastMd.row) # None) =>
        \A items \in ItemsOfLast : DirectorPairs(items)

\* a field of two items, one of them with "[" in its name, was decomposed
DecomposerWellFormedWitness ==
    /\ dataset = "md"
    /\ \E items \in ItemsOfLast :
          /\ Len(items) = 2
          /\ \E i \in DOMAIN items : items[i].name = <<" ","B","[","o","b">>
          /\ DirectorPairs(items)
          /\ Len(Segment(lastMd.start)) = 5

(* C6: decomposer tolerance.  No md_companies sub-record is emitted for a
   fragment whose trimmed body is shorter than three characters: every
   LegalEntity of the stream carries a name of at least three characters. *)
DecomposerTolerance ==
    dataset = "md" =>
        \A i \in DOMAIN out :
            out[i].schema = "LegalEntity" =>
                \E name \in Values(out[i], "name") : Len(name) >= MinNameLen

(* C7: non-string compound field.  When a compound field of a record is not a
   string, nothing is raised and the company of the record is still emitted. *)
NonStringField ==
    (/\ dataset = "md"
     /\ nrec > 0
     /\ md_company_id(lastMd.row) # None
     /\ IntVal \in {lastMd.row.directors, lastMd.row.founders, lastMd.row.owners}) =>
        /\ err = ""
        /\ out # <<>>
        /\ out[Len(out)].schema = "Company"
        /\ out[Len(out)].id = md_company_id(lastMd.row)

\* the officers of the last record whose text no grammar matches and whose
\* position is mapped
OpaqueOfficers ==
    {k \in DOMAIN lastDe.row.officers :
        /\ lastDe.row.officers[k].type = <<"c","o","m","p","a","n","y">>
        /\ ~first_match(1, lastDe.row.officers[k].name).matched
        /\ \A m \in 1..k : lastDe.row.officers[m].position \in Keys(REL_SCHEMS)}

(* C8: extractor fallback.  Every call of parse_officer_company_name returns
   the captures of the first grammar that matches its text, the grammar with a
   city first, or null when none matches; on null the officer is emitted as a
   Company named by the whole text under the opaque officer id, after its
   relationship. *)
ExtractorFallback ==
    (dataset = "de" /\ nrec > 0 /\ lastDe.row.registerArt \in Keys(SCHEMES)) =>
        /\ \A c \in DOMAIN lastDe.calls :
              /\ lastDe.calls[c].matched = (PatMatch(1, lastDe.calls[c].text).matched
                                            \/ PatMatch(2, lastDe.calls[c].text).matched)
              /\ lastDe.calls[c].groups =
                    (IF PatMatch(1, lastDe.calls[c].text).matched
                     THEN PatMatch(1, lastDe.calls[c].text).groups
                     ELSE PatMatch(2, lastDe.calls[c].text).groups)
        /\ \A k \in OpaqueOfficers :
              LET seg == Segment(lastDe.start)
                  company == seg[1]
                  text == lastDe.row.officers[k].name
              IN  /\ Len(seg) >= 2 * k + 1
                  /\ IsRel(seg[2 * k])
                  /\ seg[2 * k + 1].schema = "Company"
                  /\ Values(seg[2 * k + 1], "name") = {text}
                  /\ seg[2 * k + 1].id = officer_id(company, text)
                  /\ seg[2 * k + 1].id \in Ends(seg[2 * k])

(* C9: duplicate suppression.  No entity is forwarded twice with the same id
   and an identical property set. *)
DuplicateSuppression ==
    \A i, j \in DOMAIN out :
        (i < j /\ ~IsRel(out[i])) =>
            ~(out[i].id = out[j].id /\ out[i].props = out[j].props)

OwnershipPositions == {<<"I","n","h","a","b","e","r">>, <<"P","e","r","s","ö","n","l","i","c","h"," ","h","a","f","t","e","n","d","e","r"," ","G","e","s","e","l","l","s","c","h","a","f","t","e","r">>}
AssetRegisters == {<<"H","R","A">>, <<"H","R","B">>}

\* the officers of the last record that were read before the run ended
ReadOfficers ==
    {k \in DOMAIN lastDe.row.officers : Len(Segment(lastDe.start)) >= 2 * k + 1}

DispatchedAt(k) ==
    LET seg == Segment(lastDe.start)
        company == seg[1]
        rel == seg[2 * k]
        officer == seg[2 * k + 1]
        position == lastDe.row.officers[k].position
        owned == /\ position \in OwnershipPositions
                 /\ lastDe.row.registerArt \in AssetRegisters
    IN  /\ rel.schema = (IF owned THEN "Ownership" ELSE "Directorship")
        /\ Values(rel, IF owned THEN "owner" ELSE "director") = {officer.id}
        /\ Values(rel, IF owned THEN "asset" ELSE "organization") = {company.id}
        /\ Cardinality({pv \in rel.props : pv[1] \in EndProps}) = 2
        /\ position \in Values(rel, "role")
        /\ rel.id = <<"d","e","-","r","e","l","-","{">> \o company.id \o officer.id \o position \o <<"}">>

(* C10: edge-kind dispatch.  For every officer with a mapped position the edge
   is an Ownership (owner the officer, asset the company) exactly when the
   position is an Ownership position and the company was registered as HRA or
   HRB; otherwise it is a Directorship (director the officer, organization the
   company).  The edge keeps the position as role and its id is made of the
   company id, the officer id and the position. *)
EdgeKindDispatch ==
    (dataset = "de" /\ nrec > 0) => \A k \in ReadOfficers : DispatchedAt(k)

\* an owner position on a Verein was dispatched to a Directorship
EdgeKindDispatchWitness ==
    /\ dataset = "de"
    /\ lastDe.row.registerArt = <<"V","R">>
    /\ \E k \in ReadOfficers :
          /\ lastDe.row.officers[k].position = <<"I","n","h","a","b","e","r">>
          /\ Segment(lastDe.start)[2 * k].schema = "Directorship"
          /\ DispatchedAt(k)

=============================================================================
